---- MODULE Spec2Model ----
(***************************************************************************)
(* Model of src/index.js: the Minecraft server status bot.                 *)
(*                                                                         *)
(* State: the three process-wide maps (statusMessages, updateIntervals,    *)
(* playerHistory), the repeating timers armed with setInterval, the        *)
(* invocations of updateServerStatus in flight (one record per invocation, *)
(* holding its position among the awaits of the function), the invocation  *)
(* of the /status command handler in flight, and the clock Date.now().     *)
(* Every action is one synchronous run of JavaScript between two awaits.   *)
(***************************************************************************)
EXTENDS Integers, Sequences, FiniteSets, TLC

VARIABLES
    servers,          \* config.minecraft.servers
    now,              \* Date.now()
    statusMessages,   \* Map channelId -> message, as a set of <<key, value>>
    updateIntervals,  \* Map channelId -> interval id, as a set of <<key, value>>
    playerHistory,    \* Map channelId -> array of samples, as a set of <<key, value>>
    timers,           \* the repeating timers armed by setInterval and not cleared
    nextTimer,        \* the id the next setInterval returns
    nextMessage,      \* the id of the message the next successful channel.send returns
    ticks,            \* ticks[s][k]: the invocations of updateServerStatus(servers[s])
    cmd,              \* the invocation of the interactionCreate handler
    inits,            \* number of initializeStatusUpdates invocations so far
    ev                \* the step taken last (what ran, for which target, its result)

vars == <<servers, now, statusMessages, updateIntervals, playerHistory, timers,
          nextTimer, nextMessage, ticks, cmd, inits, ev>>

----------------------------------------------------------------------------
(* Program constants *)

\* src/index.js:52, one hour in milliseconds
SamplingInterval == 3600000
\* src/index.js:46, the default of the parameter maxHistory
DefaultMaxHistory == 24
\* src/index.js:74, generatePlayerChart returns null below this length
MinChartSamples == 2

(* Bounds of the model *)

\* the clock stops advancing after this many sampling intervals
MaxHours == 2
\* invocations of updateServerStatus that may be in flight at once, over all targets
MaxTicks == 2
\* invocations of initializeStatusUpdates
MaxInits == 2

\* the time that passes between two steps of the program
Delays == {SamplingInterval - 1, SamplingInterval}
\* result.players.online of a successful status query
PlayerCounts == {5, 8}
\* error.message of a failed status query
ErrorMessages == {"timeout", "ECONNREFUSED"}

----------------------------------------------------------------------------
(* JavaScript Map, as a set of <<key, value>> pairs *)

MapHas(m, k) == \E p \in m : p[1] = k
\* the values stored under k: empty (undefined) or one value
MapGet(m, k) == {p[2] : p \in {q \in m : q[1] = k}}
MapSet(m, k, v) == {q \in m : q[1] # k} \cup {<<k, v>>}
MapValues(m) == {p[2] : p \in m}
MapKeys(m) == {p[1] : p \in m}
TheOne(S) == CHOOSE x \in S : TRUE

----------------------------------------------------------------------------
(* config.json: the configured targets *)

\* display.chart.enabled and display.banner.enabled are both set for Alpha and Beta:
\* display.type alone selects the image
Alpha ==
    [name |-> "Alpha", channelId |-> "c1", type |-> "chart",
     chartEnabled |-> TRUE, bannerEnabled |-> TRUE, historyHours |-> {2}]
Beta ==
    [name |-> "Beta", channelId |-> "c2", type |-> "banner",
     chartEnabled |-> TRUE, bannerEnabled |-> TRUE, historyHours |-> {1}]
\* a second target posting to the channel of Alpha, with its own history window
Gamma ==
    [name |-> "Gamma", channelId |-> "c1", type |-> "none",
     chartEnabled |-> FALSE, bannerEnabled |-> FALSE, historyHours |-> {}]

Configs == {<<Alpha>>, <<Beta>>, <<Alpha, Beta>>, <<Alpha, Gamma>>}
\* the target lists that post to one channel
OneChannel == {<<Alpha>>, <<Beta>>, <<Alpha, Gamma>>}
ServerIds == 1..Len(servers)
Slots == 1..MaxTicks
\* the servers that post to channel c
ServersOn(c) == {s \in ServerIds : servers[s].channelId = c}
ChannelIds == {"c1", "c2"}

\* the argument serverConfig.display.chart.historyHours; undefined takes the default
MaxHistoryOf(server) ==
    IF server.historyHours = {} THEN DefaultMaxHistory ELSE TheOne(server.historyHours)

----------------------------------------------------------------------------
(* playerHistory *)

\* playerHistory.get(serverId) || []
HistoryOf(ph, serverId) ==
    IF MapHas(ph, serverId) THEN TheOne(MapGet(ph, serverId)) ELSE <<>>

initializePlayerHistory(ph, serverId) ==
    IF ~MapHas(ph, serverId) THEN MapSet(ph, serverId, <<>>) ELSE ph

\* updatePlayerHistory with the timestamp of the latest record refreshed as well
updatePlayerHistory_Refresh(ph, serverId, playerCount, maxHistory, currentTime) ==
    LET history == HistoryOf(ph, serverId)
        n == Len(history)
    IN  IF n = 0 \/ (currentTime - history[n].timestamp) >= SamplingInterval
        THEN LET pushed == Append(history,
                                  [timestamp |-> currentTime, count |-> playerCount])
                 kept == IF Len(pushed) > maxHistory THEN Tail(pushed) ELSE pushed
             IN  MapSet(ph, serverId, kept)
        ELSE MapSet(ph, serverId,
                    [history EXCEPT ![n] = [timestamp |-> currentTime,
                                            count |-> playerCount]])

\* updatePlayerHistory with the bound tested before the push
updatePlayerHistory_ShiftLate(ph, serverId, playerCount, maxHistory, currentTime) ==
    LET history == HistoryOf(ph, serverId)
        n == Len(history)
    IN  IF n = 0 \/ (currentTime - history[n].timestamp) >= SamplingInterval
        THEN LET kept == IF n > maxHistory THEN Tail(history) ELSE history
             IN  MapSet(ph, serverId,
                        Append(kept, [timestamp |-> currentTime, count |-> playerCount]))
        ELSE MapSet(ph, serverId, [history EXCEPT ![n].count = playerCount])

\* updatePlayerHistory that pushes a sample at every call
updatePlayerHistory_Push(ph, serverId, playerCount, maxHistory, currentTime) ==
    LET history == HistoryOf(ph, serverId)
        pushed == Append(history, [timestamp |-> currentTime, count |-> playerCount])
        kept == IF Len(pushed) > maxHistory THEN Tail(pushed) ELSE pushed
    IN  MapSet(ph, serverId, kept)

updatePlayerHistory(ph, serverId, playerCount, maxHistory, currentTime) ==
    LET history == HistoryOf(ph, serverId)
        n == Len(history)
    IN  IF n = 0 \/ (currentTime - history[n].timestamp) >= SamplingInterval
        THEN LET pushed == Append(history,
                                  [timestamp |-> currentTime, count |-> playerCount])
                 kept == IF Len(pushed) > maxHistory THEN Tail(pushed) ELSE pushed
             IN  MapSet(ph, serverId, kept)
        ELSE MapSet(ph, serverId, [history EXCEPT ![n].count = playerCount])

\* generatePlayerChart that draws any series that is not empty
generatePlayerChart_Eager(ph, serverId, renders) ==
    LET history == HistoryOf(ph, serverId)
    IN  IF Len(history) < 1
        THEN [kind |-> "null", data |-> <<>>]
        ELSE IF renders
             THEN [kind |-> "buffer",
                   data |-> [i \in 1..Len(history) |-> history[i].count]]
             ELSE [kind |-> "throw", data |-> <<>>]

\* the result of generatePlayerChart: null, the PNG of the series, or an exception
\* of the canvas (renders = FALSE)
generatePlayerChart(ph, serverId, renders) ==
    LET history == HistoryOf(ph, serverId)
    IN  IF Len(history) < MinChartSamples
        THEN [kind |-> "null", data |-> <<>>]
        ELSE IF renders
             THEN [kind |-> "buffer",
                   data |-> [i \in 1..Len(history) |-> history[i].count]]
             ELSE [kind |-> "throw", data |-> <<>>]

----------------------------------------------------------------------------
(* checkServerStatus *)

\* what util.status does: resolves with a result, resolves with a result that lacks
\* a field read at lines 192-196 (a TypeError inside the try), or rejects
QueryOutcomes ==
    {[kind |-> "ok", players |-> p, message |-> ""] : p \in PlayerCounts}
    \cup {[kind |-> "malformed", players |-> 0, message |-> "TypeError"]}
    \cup {[kind |-> "reject", players |-> 0, message |-> m] : m \in ErrorMessages}

\* checkServerStatus with the catch that rethrows
checkServerStatus_Rethrow(outcome) ==
    IF outcome.kind = "ok"
    THEN [raised |-> FALSE, online |-> TRUE, players |-> outcome.players, error |-> ""]
    ELSE [raised |-> TRUE, online |-> FALSE, players |-> 0, error |-> outcome.message]

checkServerStatus(outcome) ==
    IF outcome.kind = "ok"
    THEN [raised |-> FALSE, online |-> TRUE, players |-> outcome.players, error |-> ""]
    ELSE [raised |-> FALSE, online |-> FALSE, players |-> 0, error |-> outcome.message]

----------------------------------------------------------------------------
(* updateServerStatus: one record per invocation *)

NoChart == [kind |-> "none", data |-> <<>>]

\* pc: "idle" (no invocation in this slot), or the await the invocation is at:
\* "fetch" (line 208), "probe" (line 214), "chart" (line 268), "edit" (line 285),
\* "send" (line 287)
IdleTick ==
    [pc |-> "idle", status |-> "none", image |-> "none", files |-> <<>>,
     chart |-> NoChart, existing |-> {}]

\* the call client.channels.fetch(serverConfig.channelId) has been made
StartTick == [IdleTick EXCEPT !.pc = "fetch"]

\* the step taken last: what returned or ran, for which target, with which result;
\* for a status that came back, the player count and the series as it was before
\* and the outcome of util.status with the error message of the status
NoQuery == [kind |-> "none", players |-> 0, message |-> ""]
Event(op, s, ok) ==
    [op |-> op, s |-> s, ok |-> ok, players |-> 0, was |-> <<>>,
     query |-> NoQuery, error |-> ""]
StatusEvent(op, s, status, before, outcome) ==
    [op |-> op, s |-> s, ok |-> status.online, players |-> status.players,
     was |-> before, query |-> outcome, error |-> status.error]
RaiseEvent(op, s, outcome) == [Event(op, s, FALSE) EXCEPT !.query = outcome]

IsFree(s, k) == ticks[s][k].pc = "idle"
InFlight(s) == Cardinality({k \in Slots : ~IsFree(s, k)})
RECURSIVE InFlightUpTo(_)
InFlightUpTo(s) == IF s = 0 THEN 0 ELSE InFlight(s) + InFlightUpTo(s - 1)
\* the bound on the invocations in flight: one more for target s may start while
\* every other target keeps room for one of its own
HasFreeSlot(s) ==
    InFlightUpTo(Len(servers))
        + Cardinality({o \in ServerIds \ {s} : InFlight(o) = 0}) < MaxTicks
FreeSlot(s) == CHOOSE k \in Slots : IsFree(s, k) /\ \A j \in Slots : IsFree(s, j) => k <= j

\* AfterFetch without the test of the channel
AfterFetch_Continue(rec, found) == [rec EXCEPT !.pc = "probe"]

\* lines 209-214: a channel that did not resolve ends the invocation, otherwise
\* checkServerStatus is called
AfterFetch(rec, found) ==
    IF found THEN [rec EXCEPT !.pc = "probe"] ELSE IdleTick

\* lines 282-287: the handle is read, then edit or send is called
BeginReconcile(rec, sm, channelId) ==
    LET existingMessage == MapGet(sm, channelId)
    IN  [rec EXCEPT !.existing = existingMessage,
                    !.pc = IF existingMessage # {} THEN "edit" ELSE "send"]

\* BannerImage without the test of display.type
BannerImage_AnyType(server) ==
    IF server.bannerEnabled THEN "banner" ELSE "none"

\* line 228 (scheduled update) and line 377 (command): the banner image
BannerImage(server) ==
    IF server.type = "banner" /\ server.bannerEnabled THEN "banner" ELSE "none"

\* lines 266 and 363: whether generatePlayerChart is called
WantsChart(server, status) ==
    server.type = "chart" /\ server.chartEnabled /\ status.online

\* RecordStatus without the test of status.online
RecordStatus_Always(ph, server, status, currentTime) ==
    updatePlayerHistory(initializePlayerHistory(ph, server.channelId),
                        server.channelId, status.players,
                        MaxHistoryOf(server), currentTime)

\* RecordStatus with one series for all the targets
RecordStatus_OneSeries(ph, server, status, currentTime) ==
    IF status.online
    THEN updatePlayerHistory(initializePlayerHistory(ph, "c1"),
                             "c1", status.players,
                             MaxHistoryOf(server), currentTime)
    ELSE ph

\* lines 216-220: the history after the status is known
RecordStatus(ph, server, status, currentTime) ==
    IF status.online
    THEN updatePlayerHistory(initializePlayerHistory(ph, server.channelId),
                             server.channelId, status.players,
                             MaxHistoryOf(server), currentTime)
    ELSE ph

\* AfterProbe with generatePlayerChart called before the status is recorded
AfterProbe_ChartFirst(rec, server, status, ph, sm, currentTime, renders) ==
    LET ph1 == RecordStatus(ph, server, status, currentTime)
        built == [rec EXCEPT !.status = IF status.online THEN "online" ELSE "offline",
                             !.image = BannerImage(server)]
    IN  [history |-> ph1,
         tick |-> IF WantsChart(server, status)
                  THEN [built EXCEPT !.pc = "chart",
                                     !.chart = generatePlayerChart(ph, server.channelId,
                                                                   renders)]
                  ELSE BeginReconcile(built, sm, server.channelId)]

\* lines 216-287, from the status to the next await: the history is updated, the
\* embed is built, and either generatePlayerChart is called (and awaited) or the
\* handle is read and edit/send is called
AfterProbe(rec, server, status, ph, sm, currentTime, renders) ==
    LET ph1 == RecordStatus(ph, server, status, currentTime)
        built == [rec EXCEPT !.status = IF status.online THEN "online" ELSE "offline",
                             !.image = BannerImage(server)]
    IN  [history |-> ph1,
         tick |-> IF WantsChart(server, status)
                  THEN [built EXCEPT !.pc = "chart",
                                     !.chart = generatePlayerChart(ph1, server.channelId,
                                                                   renders)]
                  ELSE BeginReconcile(built, sm, server.channelId)]

\* lines 272-287: the chart is attached if there is one, then the handle is read
AfterChart(rec, sm, channelId) ==
    LET attached == IF rec.chart.kind = "buffer"
                    THEN [rec EXCEPT !.files = <<"player-chart.png">>, !.image = "chart"]
                    ELSE rec
    IN  BeginReconcile([attached EXCEPT !.chart = NoChart], sm, channelId)

\* AfterEdit with a rejected edit followed by channel.send
AfterEdit_Fallback(rec, ok) ==
    IF ok THEN IdleTick ELSE [rec EXCEPT !.pc = "send", !.existing = {}]

\* lines 285, 290-293: the edit resolved or rejected; both end the invocation
AfterEdit(rec, ok) == IdleTick

\* AfterSend with the message added to the table, the earlier one kept
AfterSend_Append(sm, channelId, ok, message) ==
    IF ok THEN sm \cup {<<channelId, message>>} ELSE sm

\* AfterSend that keeps a message already stored for the channel
AfterSend_First(sm, channelId, ok, message) ==
    IF ok /\ ~MapHas(sm, channelId) THEN MapSet(sm, channelId, message) ELSE sm

\* AfterSend that stores the message whether channel.send resolved or rejected
AfterSend_Stale(sm, channelId, ok, message) == MapSet(sm, channelId, message)

\* lines 287-293: statusMessages after channel.send resolved with message or rejected
AfterSend(sm, channelId, ok, message) ==
    IF ok THEN MapSet(sm, channelId, message) ELSE sm

----------------------------------------------------------------------------
(* Actions of the scheduled update *)

FetchReturn(s, k, found) ==
    /\ ticks[s][k].pc = "fetch"
    /\ ticks' = [ticks EXCEPT ![s][k] = AfterFetch(@, found)]
    /\ ev' = Event("fetch", s, found)
    /\ UNCHANGED <<servers, now, statusMessages, updateIntervals, playerHistory,
                   timers, nextTimer, nextMessage, cmd, inits>>

ProbeReturn(s, k, outcome, renders) ==
    /\ ticks[s][k].pc = "probe"
    /\ LET status == checkServerStatus(outcome)
           after == AfterProbe(ticks[s][k], servers[s], status, playerHistory,
                               statusMessages, now, renders)
       IN  IF status.raised
           THEN \* the promise of updateServerStatus rejects
                /\ ticks' = [ticks EXCEPT ![s][k] = IdleTick]
                /\ ev' = RaiseEvent("raise", s, outcome)
                /\ UNCHANGED playerHistory
           ELSE /\ ticks' = [ticks EXCEPT ![s][k] = after.tick]
                /\ playerHistory' = after.history
                /\ ev' = StatusEvent("probe", s, status,
                                     HistoryOf(playerHistory, servers[s].channelId),
                                     outcome)
    /\ UNCHANGED <<servers, now, statusMessages, updateIntervals, timers, nextTimer,
                   nextMessage, cmd, inits>>

ChartReturn(s, k) ==
    /\ ticks[s][k].pc = "chart"
    /\ ticks' = [ticks EXCEPT ![s][k] =
                    AfterChart(@, statusMessages, servers[s].channelId)]
    /\ ev' = Event("chart", s, ticks[s][k].chart.kind = "buffer")
    /\ UNCHANGED <<servers, now, statusMessages, updateIntervals, playerHistory,
                   timers, nextTimer, nextMessage, cmd, inits>>

\* EditReturn with the interval of the target cleared when the edit is rejected
EditReturn_Cancel(s, k, ok) ==
    /\ ticks[s][k].pc = "edit"
    /\ ticks' = [ticks EXCEPT ![s][k] = AfterEdit(@, ok)]
    /\ timers' = IF ok THEN timers ELSE {tm \in timers : tm.server # s}
    /\ ev' = Event("edit", s, ok)
    /\ UNCHANGED <<servers, now, statusMessages, updateIntervals, playerHistory,
                   nextTimer, nextMessage, cmd, inits>>

\* EditReturn with the stored message forgotten when the edit is rejected
EditReturn_Drop(s, k, ok) ==
    /\ ticks[s][k].pc = "edit"
    /\ ticks' = [ticks EXCEPT ![s][k] = AfterEdit(@, ok)]
    /\ statusMessages' = IF ok THEN statusMessages
                         ELSE {q \in statusMessages : q[1] # servers[s].channelId}
    /\ ev' = Event("edit", s, ok)
    /\ UNCHANGED <<servers, now, updateIntervals, playerHistory,
                   timers, nextTimer, nextMessage, cmd, inits>>

EditReturn(s, k, ok) ==
    /\ ticks[s][k].pc = "edit"
    /\ ticks' = [ticks EXCEPT ![s][k] = AfterEdit(@, ok)]
    /\ ev' = Event("edit", s, ok)
    /\ UNCHANGED <<servers, now, statusMessages, updateIntervals, playerHistory,
                   timers, nextTimer, nextMessage, cmd, inits>>

SendReturn(s, k, ok) ==
    /\ ticks[s][k].pc = "send"
    /\ statusMessages' = AfterSend(statusMessages, servers[s].channelId, ok, nextMessage)
    /\ nextMessage' = IF ok THEN nextMessage + 1 ELSE nextMessage
    /\ ticks' = [ticks EXCEPT ![s][k] = IdleTick]
    /\ ev' = Event("send", s, ok)
    /\ UNCHANGED <<servers, now, updateIntervals, playerHistory, timers, nextTimer,
                   cmd, inits>>

----------------------------------------------------------------------------
(* initializeStatusUpdates and the timers *)

\* lines 298-300: clearInterval on every value of updateIntervals
ClearIntervals(armed, intervals) ==
    {tm \in armed : tm.id \notin MapValues(intervals)}

\* lines 304-310, setInterval: the timer armed for servers[i] has id firstId + i - 1
ArmedByLoop(firstId) ==
    {[id |-> firstId + i - 1, server |-> i] : i \in ServerIds}

\* lines 304-310, updateIntervals.set(server.channelId, interval), in list order
RECURSIVE SetIntervals(_, _, _)
SetIntervals(intervals, i, firstId) ==
    IF i > Len(servers)
    THEN intervals
    ELSE SetIntervals(MapSet(intervals, servers[i].channelId, firstId + i - 1),
                      i + 1, firstId)

\* line 306 and line 309: updateServerStatus(server) runs up to its first await
Started(tk, s) == [tk EXCEPT ![s][FreeSlot(s)] = StartTick]

\* initializeStatusUpdates that clears statusMessages as well
initializeStatusUpdates_Reset ==
    /\ InFlightUpTo(Len(servers)) + Len(servers) <= MaxTicks
    /\ timers' = ClearIntervals(timers, updateIntervals) \cup ArmedByLoop(nextTimer)
    /\ updateIntervals' = SetIntervals({}, 1, nextTimer)
    /\ nextTimer' = nextTimer + Len(servers)
    /\ ticks' = [s \in ServerIds |-> Started(ticks, s)[s]]
    /\ inits' = inits + 1
    /\ ev' = Event("init", 0, TRUE)
    /\ statusMessages' = {}
    /\ UNCHANGED <<servers, now, playerHistory, nextMessage, cmd>>

initializeStatusUpdates ==
    /\ InFlightUpTo(Len(servers)) + Len(servers) <= MaxTicks
    /\ timers' = ClearIntervals(timers, updateIntervals) \cup ArmedByLoop(nextTimer)
    /\ updateIntervals' = SetIntervals({}, 1, nextTimer)
    /\ nextTimer' = nextTimer + Len(servers)
    /\ ticks' = [s \in ServerIds |-> Started(ticks, s)[s]]
    /\ inits' = inits + 1
    /\ ev' = Event("init", 0, TRUE)
    /\ UNCHANGED <<servers, now, statusMessages, playerHistory, nextMessage, cmd>>

\* lines 170-185: the handler of 'ready' (client.once) runs initializeStatusUpdates
Ready ==
    /\ inits = 0
    /\ initializeStatusUpdates

\* a later invocation of initializeStatusUpdates (a reload)
Reinitialize ==
    /\ inits >= 1
    /\ inits < MaxInits
    /\ initializeStatusUpdates

\* TimerFire that waits until no invocation is in flight (updates run one at a time)
TimerFire_Serialized(tm) ==
    /\ tm \in timers
    /\ InFlightUpTo(Len(servers)) = 0
    /\ ticks' = Started(ticks, tm.server)
    /\ ev' = Event("fire", tm.server, TRUE)
    /\ UNCHANGED <<servers, now, statusMessages, updateIntervals, playerHistory,
                   timers, nextTimer, nextMessage, cmd, inits>>

\* the callback of setInterval, line 309
TimerFire(tm) ==
    /\ tm \in timers
    /\ HasFreeSlot(tm.server)
    /\ ticks' = Started(ticks, tm.server)
    /\ ev' = Event("fire", tm.server, TRUE)
    /\ UNCHANGED <<servers, now, statusMessages, updateIntervals, playerHistory,
                   timers, nextTimer, nextMessage, cmd, inits>>

\* time passes
Advance(d) ==
    /\ now + d <= MaxHours * SamplingInterval
    /\ now' = now + d
    /\ ev' = Event("advance", 0, TRUE)
    /\ UNCHANGED <<servers, statusMessages, updateIntervals, playerHistory, timers,
                   nextTimer, nextMessage, ticks, cmd, inits>>

\* the system clock is set back (Date.now() is the wall clock)
ClockSetBack ==
    /\ now > 0
    /\ now' = 0
    /\ ev' = Event("setback", 0, TRUE)
    /\ UNCHANGED <<servers, statusMessages, updateIntervals, playerHistory, timers,
                   nextTimer, nextMessage, ticks, cmd, inits>>

----------------------------------------------------------------------------
(* The /status command, lines 317-387 *)

\* the option 'server' of the interaction
CommandNames == {"alpha", "BETA", "Delta"}

\* String.prototype.toLowerCase on the names that occur
ToLowerCase(str) ==
    CASE str = "Alpha" -> "alpha"
      [] str = "Beta" -> "beta"
      [] str = "BETA" -> "beta"
      [] str = "Gamma" -> "gamma"
      [] str = "Delta" -> "delta"
      [] OTHER -> str

\* line 322, Array.prototype.find: the first match, 0 for undefined
FindServer(serverName) ==
    LET matches == {i \in 1..Len(servers) :
                       ToLowerCase(servers[i].name) = ToLowerCase(serverName)}
    IN  IF matches = {} THEN 0
        ELSE CHOOSE i \in matches : \A j \in matches : i <= j

\* pc: "idle", or the await the handler is at: "probe" (line 332), "chart" (line 365),
\* "reply" (lines 325 and 381)
IdleCommand ==
    [pc |-> "idle", server |-> 0, status |-> "none", image |-> "none",
     files |-> <<>>, chart |-> NoChart]

\* lines 318-332
StartCommand(isStatus, serverName) ==
    IF ~isStatus
    THEN IdleCommand
    ELSE IF FindServer(serverName) = 0
         THEN [IdleCommand EXCEPT !.pc = "reply"]
         ELSE [IdleCommand EXCEPT !.pc = "probe", !.server = FindServer(serverName)]

\* lines 333-381, from the status to the next await
CommandAfterProbe(rec, server, status, ph, renders) ==
    LET built == [rec EXCEPT !.status = IF status.online THEN "online" ELSE "offline"]
    IN  IF WantsChart(server, status)
        THEN [built EXCEPT !.pc = "chart",
                           !.chart = generatePlayerChart(ph, server.channelId, renders)]
        ELSE [built EXCEPT !.pc = "reply", !.image = BannerImage(server)]

\* lines 369-381
CommandAfterChart(rec) ==
    LET attached == IF rec.chart.kind = "buffer"
                    THEN [rec EXCEPT !.files = <<"player-chart.png">>, !.image = "chart"]
                    ELSE rec
    IN  [attached EXCEPT !.pc = "reply", !.chart = NoChart]

CommandReceived(isStatus, serverName) ==
    /\ cmd.pc = "idle"
    /\ cmd' = StartCommand(isStatus, serverName)
    /\ ev' = Event("command", FindServer(serverName), isStatus)
    /\ UNCHANGED <<servers, now, statusMessages, updateIntervals, playerHistory,
                   timers, nextTimer, nextMessage, ticks, inits>>

\* CommandProbeReturn with the history updated as updateServerStatus does
CommandProbeReturn_Record(outcome, renders) ==
    /\ cmd.pc = "probe"
    /\ LET status == checkServerStatus(outcome)
           ph1 == RecordStatus(playerHistory, servers[cmd.server], status, now)
       IN  /\ cmd' = CommandAfterProbe(cmd, servers[cmd.server], status, ph1, renders)
           /\ playerHistory' = ph1
           /\ ev' = StatusEvent("commandProbe", cmd.server, status,
                                HistoryOf(playerHistory, servers[cmd.server].channelId),
                                outcome)
    /\ UNCHANGED <<servers, now, statusMessages, updateIntervals,
                   timers, nextTimer, nextMessage, ticks, inits>>

CommandProbeReturn(outcome, renders) ==
    /\ cmd.pc = "probe"
    /\ LET status == checkServerStatus(outcome)
       IN  IF status.raised
           THEN /\ cmd' = IdleCommand
                /\ ev' = RaiseEvent("commandRaise", cmd.server, outcome)
           ELSE /\ cmd' = CommandAfterProbe(cmd, servers[cmd.server], status,
                                            playerHistory, renders)
                /\ ev' = StatusEvent("commandProbe", cmd.server, status,
                                     HistoryOf(playerHistory,
                                               servers[cmd.server].channelId),
                                     outcome)
    /\ UNCHANGED <<servers, now, statusMessages, updateIntervals, playerHistory,
                   timers, nextTimer, nextMessage, ticks, inits>>

CommandChartReturn ==
    /\ cmd.pc = "chart"
    /\ cmd' = CommandAfterChart(cmd)
    /\ ev' = Event("commandChart", cmd.server, cmd.chart.kind = "buffer")
    /\ UNCHANGED <<servers, now, statusMessages, updateIntervals, playerHistory,
                   timers, nextTimer, nextMessage, ticks, inits>>

\* interaction.reply resolved or rejected; the handler ends
CommandReplyReturn(ok) ==
    /\ cmd.pc = "reply"
    /\ cmd' = IdleCommand
    /\ ev' = Event("reply", cmd.server, ok)
    /\ UNCHANGED <<servers, now, statusMessages, updateIntervals, playerHistory,
                   timers, nextTimer, nextMessage, ticks, inits>>

----------------------------------------------------------------------------
(* The program *)

\* the state when the module has been loaded, for one of the target lists
Loaded(configs) ==
    /\ servers \in configs
    /\ now = 0
    /\ statusMessages = {}
    /\ updateIntervals = {}
    /\ playerHistory = {}
    /\ timers = {}
    /\ nextTimer = 1
    /\ nextMessage = 1
    /\ ticks = [s \in ServerIds |-> [k \in Slots |-> IdleTick]]
    /\ cmd = IdleCommand
    /\ inits = 0
    /\ ev = Event("start", 0, TRUE)

Init == Loaded(OneChannel)

\* a call awaited by the invocation in slot k of target s returns
TickStep(s, k) ==
    \/ \E found \in BOOLEAN : FetchReturn(s, k, found)
    \/ \E outcome \in QueryOutcomes, renders \in BOOLEAN :
          ProbeReturn(s, k, outcome, renders)
    \/ ChartReturn(s, k)
    \/ \E ok \in BOOLEAN : EditReturn(s, k, ok)
    \/ \E ok \in BOOLEAN : SendReturn(s, k, ok)

Fire == \E tm \in timers : TimerFire(tm)
Fetched == \E s \in ServerIds, k \in Slots, found \in BOOLEAN : FetchReturn(s, k, found)
Probed ==
    \E s \in ServerIds, k \in Slots, outcome \in QueryOutcomes, renders \in BOOLEAN :
        ProbeReturn(s, k, outcome, renders)
Charted == \E s \in ServerIds, k \in Slots : ChartReturn(s, k)
Edited == \E s \in ServerIds, k \in Slots, ok \in BOOLEAN : EditReturn(s, k, ok)
Sent == \E s \in ServerIds, k \in Slots, ok \in BOOLEAN : SendReturn(s, k, ok)
Elapse == \E d \in Delays : Advance(d)

Commanded ==
    \E isStatus \in BOOLEAN, serverName \in CommandNames :
        CommandReceived(isStatus, serverName)
CommandProbed ==
    \E outcome \in QueryOutcomes, renders \in BOOLEAN :
        CommandProbeReturn(outcome, renders)
Replied == \E ok \in BOOLEAN : CommandReplyReturn(ok)

\* the scheduled updates of the targets of one channel, as the program runs them
Next ==
    \/ Ready
    \/ Fire
    \/ Fetched
    \/ Probed
    \/ Charted
    \/ Edited
    \/ Sent
    \/ Elapse

Spec == Init /\ [][Next]_vars

\* the scheduled updates of every target list with re-initialization, at one instant
ReinitNext ==
    \/ Ready
    \/ Reinitialize
    \/ Fire
    \/ Fetched
    \/ Probed
    \/ Charted
    \/ Edited
    \/ Sent

ReinitSpec == Loaded(Configs) /\ [][ReinitNext]_vars

\* every armed timer keeps firing, and every call awaited by an invocation returns
\* (a timer fires whatever is in flight; the returns free the slots that bound the
\* invocations in flight here)
TargetIds == 1..2
Fairness ==
    /\ \A s \in TargetIds :
          WF_vars(s \in ServerIds /\ \E tm \in timers : tm.server = s /\ TimerFire(tm))
    /\ \A s \in TargetIds, k \in Slots :
          WF_vars(s \in ServerIds /\ TickStep(s, k))

ElapseHour == Advance(SamplingInterval)

\* the scheduled updates of two targets, hour by hour
FairNext ==
    \/ Ready
    \/ Fire
    \/ Fetched
    \/ Probed
    \/ Charted
    \/ Edited
    \/ Sent
    \/ ElapseHour

FairSpec == Loaded({<<Alpha, Gamma>>}) /\ [][FairNext]_vars /\ Fairness

\* the scheduled updates of one channel under a clock that may be set back
ClockNext ==
    \/ Ready
    \/ Fire
    \/ Fetched
    \/ Probed
    \/ Charted
    \/ Edited
    \/ Sent
    \/ Elapse
    \/ ClockSetBack

ClockSpec == Loaded({<<Alpha>>, <<Alpha, Gamma>>}) /\ [][ClockNext]_vars

\* util.status never settles for the first target: its checkServerStatus never
\* returns, every other awaited call does
HangStep(s, k) == TickStep(s, k) /\ ~(s = 1 /\ ticks[s][k].pc = "probe")

ProbedOthers ==
    \E s \in ServerIds \ {1}, k \in Slots, outcome \in QueryOutcomes, renders \in BOOLEAN :
        ProbeReturn(s, k, outcome, renders)

HangNext ==
    \/ Ready
    \/ Fire
    \/ Fetched
    \/ ProbedOthers
    \/ Charted
    \/ Edited
    \/ Sent
    \/ ElapseHour

\* every armed timer keeps firing, and every awaited call returns except the status
\* query of the first target
HangFairness ==
    /\ \A s \in TargetIds :
          WF_vars(s \in ServerIds /\ \E tm \in timers : tm.server = s /\ TimerFire(tm))
    /\ \A s \in TargetIds, k \in Slots :
          WF_vars(s \in ServerIds /\ HangStep(s, k))

HangSpec == Loaded({<<Beta, Alpha>>}) /\ [][HangNext]_vars /\ HangFairness

\* the executions in which the invocations for one destination do not overlap: a
\* timer fires, and initializeStatusUpdates runs again, only when the invocations
\* for the destination have ended, and no two targets share a channel
FireSerial ==
    \E tm \in timers :
        /\ \A o \in ServersOn(servers[tm.server].channelId) : InFlight(o) = 0
        /\ TimerFire(tm)

ReinitializeSerial == InFlightUpTo(Len(servers)) = 0 /\ Reinitialize

SerialNext ==
    \/ Ready
    \/ ReinitializeSerial
    \/ FireSerial
    \/ Fetched
    \/ Probed
    \/ Charted
    \/ Edited
    \/ Sent
    \/ ElapseHour

SerialSpec == Loaded({<<Alpha>>, <<Beta>>, <<Alpha, Beta>>}) /\ [][SerialNext]_vars

\* a timer fires while no invocation is in flight
FireAlone == InFlightUpTo(Len(servers)) = 0 /\ Fire

\* the /status command beside the scheduled updates of two targets, hour by hour
CommandNext ==
    \/ Ready
    \/ FireAlone
    \/ Fetched
    \/ Probed
    \/ Charted
    \/ Edited
    \/ Sent
    \/ ElapseHour
    \/ Commanded
    \/ CommandProbed
    \/ CommandChartReturn
    \/ Replied

CommandSpec == Loaded({<<Alpha, Beta>>}) /\ [][CommandNext]_vars

----------------------------------------------------------------------------
(* Properties *)

\* the step is the return of checkServerStatus with an Online result in an
\* invocation of updateServerStatus(servers[s]): updatePlayerHistory runs in it
Records(s) == ev'.op = "probe" /\ ev'.s = s /\ ev'.ok

SampleOf(currentTime, playerCount) == [timestamp |-> currentTime, count |-> playerCount]

\* C1: a record made less than one sampling interval after the latest sample keeps
\* the length of the series, every timestamp and every earlier value, and sets the
\* value of the latest sample to the new player count; for every such call, so for
\* any number of them in a row
C1_Coalescing ==
    [][\A s \in ServerIds :
          LET before == HistoryOf(playerHistory, servers[s].channelId)
              after == HistoryOf(playerHistory', servers[s].channelId)
              n == Len(before)
          IN  (Records(s) /\ n > 0 /\ now - before[n].timestamp < SamplingInterval)
              => /\ Len(after) = n
                 /\ \A i \in 1..n : after[i].timestamp = before[i].timestamp
                 /\ \A i \in 1..(n - 1) : after[i].count = before[i].count
                 /\ after[n].count = ev'.players]_vars

\* a record has just coalesced into the second sample of a series: the sample is
\* older than the record, and its value was another one before
C1_Witness ==
    /\ ev.op = "probe" /\ ev.ok
    /\ LET h == HistoryOf(playerHistory, servers[ev.s].channelId)
       IN  /\ Len(h) = 2 /\ Len(ev.was) = 2
           /\ h[2].timestamp < now
           /\ h[2].count = ev.players
           /\ ev.was[2].count # ev.players

\* C2: a record made at least one sampling interval after the latest sample (so every
\* record made one interval or more after the previous record) appends one sample
\* while the series is shorter than the capacity, and at the capacity drops the
\* oldest sample and appends, the order of the others kept; and a series whose
\* records all use one capacity is never longer than it
C2_FifoStep ==
    \A s \in ServerIds :
        LET before == HistoryOf(playerHistory, servers[s].channelId)
            after == HistoryOf(playerHistory', servers[s].channelId)
            n == Len(before)
            capacity == MaxHistoryOf(servers[s])
            sample == SampleOf(now, ev'.players)
        IN  (Records(s) /\ (n = 0 \/ now - before[n].timestamp >= SamplingInterval))
            => /\ n < capacity => after = Append(before, sample)
               /\ n = capacity => after = Append(Tail(before), sample)

C2_Bounded ==
    \A c \in ChannelIds :
        \A s \in ServersOn(c) :
            (\A o \in ServersOn(c) : MaxHistoryOf(servers[o]) = MaxHistoryOf(servers[s]))
            => Len(HistoryOf(playerHistory, c)) <= MaxHistoryOf(servers[s])

C2_FifoBound == []C2_Bounded /\ [][C2_FifoStep]_vars

\* a record has just dropped the oldest sample of a series that was at its capacity
C2_Witness ==
    /\ ev.op = "probe" /\ ev.ok
    /\ LET h == HistoryOf(playerHistory, servers[ev.s].channelId)
           capacity == MaxHistoryOf(servers[ev.s])
       IN  /\ capacity >= 2
           /\ Len(ev.was) = capacity /\ Len(h) = capacity
           /\ h[capacity] = SampleOf(now, ev.players)
           /\ h[1] = ev.was[2]

\* C3: no step of an invocation of updateServerStatus whose status is Offline changes
\* playerHistory: no series is created, lengthened or changed
C3_OfflineKeepsHistory ==
    [][\A s \in ServerIds, k \in Slots :
          (/\ ticks'[s][k] # ticks[s][k]
           /\ (ticks[s][k].status = "offline" \/ ticks'[s][k].status = "offline"))
          => playerHistory' = playerHistory]_vars

\* an Offline status has just come back for a target whose channel has a series
C3_Witness ==
    /\ ev.op = "probe" /\ ~ev.ok
    /\ Len(HistoryOf(playerHistory, servers[ev.s].channelId)) >= 1
    /\ \E k \in Slots : ticks[ev.s][k].status = "offline"

\* C4: statusMessages holds at most one message per destination, and a destination
\* that has a message keeps having exactly one: a channel.send that resolved stores
\* its message, and no step removes the entry of a destination
C4_Cardinality ==
    \A c \in ChannelIds : Cardinality(MapGet(statusMessages, c)) <= 1

C4_Kept ==
    /\ \A c \in ChannelIds :
          MapHas(statusMessages, c) => Cardinality(MapGet(statusMessages', c)) = 1
    /\ \A s \in ServerIds :
          (ev'.op = "send" /\ ev'.s = s /\ ev'.ok)
          => Cardinality(MapGet(statusMessages', servers[s].channelId)) = 1

C4_OneHandle == []C4_Cardinality /\ [][C4_Kept]_vars

\* a second channel.send for one destination has just resolved
C4_Witness ==
    /\ ev.op = "send" /\ ev.ok
    /\ nextMessage >= 3
    /\ Cardinality(MapKeys(statusMessages)) = 1
    /\ MapGet(statusMessages, servers[ev.s].channelId) = {nextMessage - 1}

\* C6: an invocation that read a message for its destination calls edit and not send;
\* none of its steps changes statusMessages, and when the edit is rejected the
\* invocation ends without a channel.send
C6_EditOnly ==
    [][\A s \in ServerIds, k \in Slots :
          LET rec == ticks[s][k]
              rec2 == ticks'[s][k]
          IN  /\ (rec2 # rec /\ rec2.pc \in {"edit", "send"})
                 => /\ rec2.existing = MapGet(statusMessages, servers[s].channelId)
                    /\ rec2.pc = "edit" <=> rec2.existing # {}
              /\ (rec2 # rec /\ rec.pc = "edit")
                 => /\ rec2 = IdleTick
                    /\ statusMessages' = statusMessages]_vars

\* an edit of the stored message has just been rejected
C6_Witness ==
    /\ ev.op = "edit" /\ ~ev.ok
    /\ MapHas(statusMessages, servers[ev.s].channelId)
    /\ \A k \in Slots : ticks[ev.s][k].pc # "send"

\* C7: once initializeStatusUpdates has run, every configured target has exactly one
\* armed timer
C7_OneTimerPerTarget ==
    inits >= 1 => \A s \in ServerIds : Cardinality({tm \in timers : tm.server = s}) = 1

\* C5: when client.channels.fetch does not resolve the channel of target T, the
\* invocation ends there: it calls neither edit nor send, statusMessages and
\* playerHistory stay as they are, and the invocations of the other targets (and every
\* other invocation) stay in flight, untouched, with their timers armed
C5_FetchFailureSkips ==
    [][\A s \in ServerIds, k \in Slots :
          (/\ ticks[s][k].pc = "fetch"
           /\ ticks'[s][k] # ticks[s][k]
           /\ ~ev'.ok)
          => /\ ticks'[s][k] = IdleTick
             /\ statusMessages' = statusMessages
             /\ playerHistory' = playerHistory
             /\ timers' = timers
             /\ \A o \in ServerIds, j \in Slots :
                   <<o, j>> # <<s, k>> => ticks'[o][j] = ticks[o][j]]_vars

\* the channel of a target has just failed to resolve in the round started by
\* initializeStatusUpdates, while the invocation of another target is in flight
C5_Witness ==
    /\ ev.op = "fetch" /\ ~ev.ok
    /\ InFlight(ev.s) = 0
    /\ \E o \in ServerIds : o # ev.s /\ InFlight(o) = 1
    /\ statusMessages = {} /\ playerHistory = {}

\* C8: no step of an invocation of updateServerStatus, whatever its outcome, disarms
\* a timer or changes updateIntervals; and with timers that keep firing, new
\* invocations keep being started for every configured target
C8_TimersUntouched ==
    \A s \in ServerIds, k \in Slots :
        (ticks[s][k].pc # "idle" /\ ticks'[s][k] # ticks[s][k])
        => (timers' = timers /\ updateIntervals' = updateIntervals)

C8_KeepsTicking ==
    \A s \in TargetIds :
        []((inits >= 1 /\ s \in ServerIds) => <>(ev.op = "fire" /\ ev.s = s))

C8_TimerSurvives == [][C8_TimersUntouched]_vars /\ C8_KeepsTicking

\* an edit has just been rejected and the timer of the target is armed
C8_Witness ==
    /\ ev.op = "edit" /\ ~ev.ok
    /\ \E tm \in timers : tm.server = ev.s

\* the steps of the /status handler
CommandOps == {"command", "commandProbe", "commandChart", "commandRaise", "reply"}

\* C9: no step of the /status handler, for a server that is configured or not and
\* for an Online or Offline status, changes playerHistory, statusMessages,
\* updateIntervals, the armed timers or an invocation of updateServerStatus; the
\* handler ends with its interaction.reply
C9_CommandFrame ==
    [][(ev'.op \in CommandOps \/ cmd' # cmd)
       => /\ UNCHANGED <<playerHistory, statusMessages, updateIntervals, timers, ticks,
                         nextTimer, nextMessage>>
          /\ (cmd.pc # "idle" /\ cmd'.pc = "idle") => (cmd.pc = "reply")]_vars

\* the status of a configured server has just come back Online to the handler,
\* while a scheduled update of that server is in flight and its series has a sample
C9_Witness ==
    /\ ev.op = "commandProbe" /\ ev.ok
    /\ InFlight(ev.s) >= 1
    /\ Len(HistoryOf(playerHistory, servers[ev.s].channelId)) >= 1
    /\ HistoryOf(playerHistory, servers[ev.s].channelId) = ev.was

\* C10: checkServerStatus does not raise: a status query that succeeds gives Online
\* with its player count, one that times out, is refused or is malformed gives
\* Offline with the message of the error
C10_ProbeTotal ==
    /\ ev.op \notin {"raise", "commandRaise"}
    /\ ev.op \in {"probe", "commandProbe"}
       => /\ ev.query.kind = "ok" => (ev.ok /\ ev.players = ev.query.players)
          /\ ev.query.kind # "ok" => (~ev.ok /\ ev.error = ev.query.message)

\* a rejected status query has just come back as an Offline status
C10_Witness ==
    /\ ev.op = "probe" /\ ev.query.kind = "reject"
    /\ ~ev.ok /\ ev.error = "timeout"

\* consecutive samples of a series are at least one sampling interval apart
Spaced(h) ==
    \A i \in 1..(Len(h) - 1) : h[i + 1].timestamp - h[i].timestamp >= SamplingInterval

\* the values of a series, as generatePlayerChart draws them
CountsOf(h) == [i \in 1..Len(h) |-> h[i].count]

\* C11: the payload of a scheduled update or of a /status reply carries the chart only
\* for a target of display type chart with the chart enabled and an Online status, and
\* only when the series held at least 2 samples when generatePlayerChart ran; with
\* fewer than 2 samples generatePlayerChart gives null, so a chart that is delivered
\* shows two samples or more, each one sampling interval or more after the one before
C11_Gate ==
    /\ \A s \in ServerIds, k \in Slots :
          LET rec == ticks[s][k]
          IN  (rec.image = "chart" \/ rec.files # <<>> \/ rec.chart.kind = "buffer")
              => /\ servers[s].type = "chart" /\ servers[s].chartEnabled
                 /\ rec.status = "online"
    /\ (cmd.image = "chart" \/ cmd.files # <<>> \/ cmd.chart.kind = "buffer")
       => /\ servers[cmd.server].type = "chart" /\ servers[cmd.server].chartEnabled
          /\ cmd.status = "online"

C11_Render ==
    /\ \A s \in ServerIds, k \in Slots :
          LET rec == ticks[s][k]
              rec2 == ticks'[s][k]
              h == HistoryOf(playerHistory', servers[s].channelId)
          IN  /\ (rec.pc = "probe" /\ rec2.pc = "chart")
                 => /\ Len(h) < 2 => rec2.chart.kind = "null"
                    /\ rec2.chart.kind = "buffer"
                       => (Len(h) >= 2 /\ Spaced(h) /\ rec2.chart.data = CountsOf(h))
              /\ (rec2 # rec /\ (rec2.image = "chart" \/ rec2.files # <<>>))
                 => /\ rec.pc = "chart" /\ rec.chart.kind = "buffer"
                    /\ Len(rec.chart.data) >= 2
    /\ LET h == HistoryOf(playerHistory', servers[cmd.server].channelId)
       IN  /\ (cmd.pc = "probe" /\ cmd'.pc = "chart")
              => /\ Len(h) < 2 => cmd'.chart.kind = "null"
                 /\ cmd'.chart.kind = "buffer"
                    => (Len(h) >= 2 /\ Spaced(h) /\ cmd'.chart.data = CountsOf(h))
           /\ (cmd' # cmd /\ (cmd'.image = "chart" \/ cmd'.files # <<>>))
              => /\ cmd.pc = "chart" /\ cmd.chart.kind = "buffer"
                 /\ Len(cmd.chart.data) >= 2

C11_ChartNeedsTwo == []C11_Gate /\ [][C11_Render]_vars

\* the chart has just been attached to the payload of a scheduled update
C11_Witness ==
    /\ ev.op = "chart" /\ ev.ok
    /\ \E k \in Slots :
          /\ ticks[ev.s][k].image = "chart"
          /\ ticks[ev.s][k].files = <<"player-chart.png">>
          /\ ticks[ev.s][k].status = "online"

\* C12: in every state, overlapping invocations for one target included, every series
\* has its timestamps ascending with one sampling interval (3600000 ms) or more
\* between consecutive samples
C12_OrderedSpaced ==
    \A c \in ChannelIds :
        LET h == HistoryOf(playerHistory, c)
        IN  /\ Spaced(h)
            /\ \A i \in 1..Len(h), j \in 1..Len(h) :
                  i < j => h[i].timestamp < h[j].timestamp

\* two invocations for one target are in flight, both past an Online status, and
\* the second of them has just recorded into a series of two samples
C12_Witness ==
    /\ ev.op = "probe" /\ ev.ok
    /\ Cardinality({k \in Slots : ticks[ev.s][k].status = "online"}) = 2
    /\ Len(HistoryOf(playerHistory, servers[ev.s].channelId)) = 2
    /\ Len(ev.was) = 2

\* C13: invocations for one target run side by side; an invocation that read no
\* message for its destination stays at channel.send whatever is stored meanwhile,
\* and when its channel.send resolves the message it returned is the one stored
\* for the destination, in place of any message stored by an earlier channel.send:
\* of two such invocations the one that completes last leaves its message
C13_Step ==
    \A s \in ServerIds, k \in Slots :
        LET rec == ticks[s][k]
            rec2 == ticks'[s][k]
            c == servers[s].channelId
        IN  (rec.pc = "send" /\ rec2 # rec)
            => /\ rec.existing = {}
               /\ rec2 = IdleTick
               /\ ev'.op = "send" /\ ev'.s = s
               /\ ev'.ok => /\ MapGet(statusMessages', c) = {nextMessage}
                            /\ nextMessage \notin MapValues(statusMessages)
                            /\ nextMessage' = nextMessage + 1

C13_LastWriteWins == [][C13_Step]_vars

\* two invocations for the only target both read no message and both called
\* channel.send; the second channel.send has just resolved and its message has
\* taken the place of the first
C13_Witness ==
    /\ ev.op = "send" /\ ev.ok
    /\ Len(servers) = 1
    /\ nextMessage = 3
    /\ statusMessages = {<<servers[1].channelId, 2>>}

\* the steps of an invocation of updateServerStatus and of the timer that starts it
TickOps == {"fire", "fetch", "probe", "raise", "chart", "edit", "send"}

\* C14: while the status query of one target never returns, the timer of every other
\* target keeps firing, every invocation for another target whose status query was
\* made gets to its edit or send, and no step taken for the hung target changes the
\* invocations, the series or the message of another target
C14_Frame ==
    \A o \in ServerIds \ {1} :
        (ev'.s = 1 /\ ev'.op \in TickOps)
        => /\ ticks'[o] = ticks[o]
           /\ MapGet(playerHistory', servers[o].channelId)
                 = MapGet(playerHistory, servers[o].channelId)
           /\ MapGet(statusMessages', servers[o].channelId)
                 = MapGet(statusMessages, servers[o].channelId)
           /\ {tm \in timers' : tm.server = o} = {tm \in timers : tm.server = o}

C14_KeepsFiring ==
    \A o \in TargetIds \ {1} :
        []((inits >= 1 /\ o \in ServerIds) => <>(ev.op = "fire" /\ ev.s = o))

C14_Reconciles ==
    \A o \in TargetIds \ {1}, k \in Slots :
        (o \in ServerIds /\ ticks[o][k].pc = "probe")
            ~> (o \in ServerIds /\ ticks[o][k].pc \in {"edit", "send"})

C14_HungProbeIsolated == [][C14_Frame]_vars /\ C14_KeepsFiring /\ C14_Reconciles

\* the status query of the first target has not returned, and a later invocation of
\* the other target has just completed its edit
C14_Witness ==
    /\ ev.op = "edit" /\ ev.s = 2
    /\ \E k \in Slots : ticks[1][k].pc = "probe"
    /\ MapHas(statusMessages, servers[2].channelId)
    /\ ~MapHas(statusMessages, servers[1].channelId)

\* C15: when channel.send is rejected that invocation stores no message (for a
\* destination without a message the entry stays unset); every invocation that then
\* reads no message for the destination calls channel.send again, and a channel.send
\* that resolves has its message stored
C15_Step ==
    \A s \in ServerIds, k \in Slots :
        LET rec == ticks[s][k]
            rec2 == ticks'[s][k]
            c == servers[s].channelId
        IN  /\ (rec.pc = "send" /\ rec2 # rec /\ ~ev'.ok)
               => /\ statusMessages' = statusMessages
                  /\ nextMessage' = nextMessage
                  /\ rec2 = IdleTick
            /\ (rec.pc = "send" /\ rec2 # rec /\ ev'.ok)
               => MapGet(statusMessages', c) = {nextMessage}
            /\ (rec.pc \in {"probe", "chart"} /\ rec2.pc \in {"edit", "send"}
                  /\ ~MapHas(statusMessages, c))
               => rec2.pc = "send"

C15_FailedCreateRetried == [][C15_Step]_vars

\* a channel.send for a destination without a message has just been rejected and
\* ended its invocation: the entry is still unset and no message was ever stored
C15_Witness ==
    /\ ev.op = "send" /\ ~ev.ok
    /\ ~MapHas(statusMessages, servers[ev.s].channelId)
    /\ nextMessage = 1
    /\ InFlight(ev.s) = 0

\* C16: in an invocation whose status is Online the record and the read of the series
\* by generatePlayerChart happen in one step, the record first, and the edit or send
\* comes after both: the series drawn is the series as this invocation recorded it,
\* with the player count of this invocation as its latest value, whatever other
\* invocations for the target do before or after
C16_Step ==
    \A s \in ServerIds, k \in Slots :
        LET rec == ticks[s][k]
            rec2 == ticks'[s][k]
            c == servers[s].channelId
            drawn == rec2.chart.data
        IN  /\ (rec.pc = "probe" /\ rec2.pc = "chart" /\ rec2.chart.kind = "buffer")
               => /\ ev'.op = "probe" /\ ev'.ok
                  /\ playerHistory' = RecordStatus(playerHistory, servers[s],
                                                   [online |-> TRUE, players |-> ev'.players],
                                                   now)
                  /\ drawn = CountsOf(HistoryOf(playerHistory', c))
                  /\ drawn[Len(drawn)] = ev'.players
            /\ (rec.pc = "chart" /\ rec2 # rec)
               => /\ rec2.pc \in {"edit", "send"}
                  /\ playerHistory' = playerHistory
            /\ (rec.pc = "chart" /\ rec2.pc = "chart") => rec2.chart = rec.chart
            /\ (rec.pc = "probe" /\ rec2.pc \in {"edit", "send"})
               => (ev'.op = "probe" /\ ~WantsChart(servers[s], [online |-> ev'.ok]))

C16_RecordBeforeChart == [][C16_Step]_vars

\* the chart of one invocation is drawn and not yet sent, and another invocation for
\* the target has recorded another player count since: the series drawn ends with the
\* count of its own invocation, the stored series with the later one
C16_Witness ==
    \E s \in ServerIds, k \in Slots :
        LET h == HistoryOf(playerHistory, servers[s].channelId)
            drawn == ticks[s][k].chart.data
        IN  /\ ticks[s][k].pc = "chart" /\ ticks[s][k].chart.kind = "buffer"
            /\ ev.op = "probe" /\ ev.ok /\ ev.s = s
            /\ Len(h) = Len(drawn)
            /\ drawn[Len(drawn)] # h[Len(h)].count
            /\ h[Len(h)].count = ev.players

\* what a payload under construction may hold: no image, the banner alone, or the
\* chart with its attachment; while generatePlayerChart is awaited no image is set
OneImage(rec, server) ==
    /\ rec.image \in {"none", "banner", "chart"}
    /\ rec.image = "banner" => (rec.files = <<>> /\ server.type = "banner")
    /\ rec.image = "chart" => (rec.files = <<"player-chart.png">> /\ server.type = "chart")
    /\ rec.files # <<>> => rec.image = "chart"
    /\ rec.pc = "chart" => rec.image = "none"

\* C17: every payload, of a scheduled update or of a /status reply, has exactly one of
\* no image, the banner image, the chart image: for no configuration (both images
\* enabled included) and no status is the chart set on a payload that has the banner
C17_OneImagePerPayload ==
    /\ \A s \in ServerIds, k \in Slots :
          ticks[s][k].pc # "idle" => OneImage(ticks[s][k], servers[s])
    /\ cmd.server # 0 => OneImage(cmd, servers[cmd.server])

\* the chart has just been attached to the reply of /status for a target that has the
\* banner enabled as well
C17_Witness ==
    /\ ev.op = "commandChart" /\ ev.ok
    /\ cmd.image = "chart" /\ cmd.files = <<"player-chart.png">>
    /\ servers[cmd.server].bannerEnabled /\ servers[cmd.server].chartEnabled

\* C18: for two targets with different channel ids, no step of an invocation for one
\* of them, whatever its outcome and whatever else is in flight, changes the series
\* or the stored message of the other
C18_Step ==
    \A s \in ServerIds, o \in ServerIds :
        (/\ servers[s].channelId # servers[o].channelId
         /\ ev'.s = s /\ ev'.op \in TickOps)
        => /\ MapGet(playerHistory', servers[o].channelId)
                 = MapGet(playerHistory, servers[o].channelId)
           /\ MapGet(statusMessages', servers[o].channelId)
                 = MapGet(statusMessages, servers[o].channelId)

C18_TargetsApart == [][C18_Step]_vars

\* an Online status has just been recorded for one target while another target, on
\* another channel, has a series and a stored message and an invocation in flight
C18_Witness ==
    /\ ev.op = "probe" /\ ev.ok
    /\ MapHas(playerHistory, servers[ev.s].channelId)
    /\ \E o \in ServerIds :
          /\ servers[o].channelId # servers[ev.s].channelId
          /\ Len(HistoryOf(playerHistory, servers[o].channelId)) >= 1
          /\ MapHas(statusMessages, servers[o].channelId)
          /\ InFlight(o) >= 1

\* C19: initializeStatusUpdates changes the timers and updateIntervals and starts one
\* invocation per target; it leaves playerHistory and statusMessages as they are, so
\* an invocation that gets to line 282 after a re-initialization, for a destination
\* that has a message, calls edit on that message, and the series recorded before is
\* still there
C19_Step ==
    /\ ev'.op = "init"
       => /\ playerHistory' = playerHistory
          /\ statusMessages' = statusMessages
          /\ nextMessage' = nextMessage
          /\ \A s \in ServerIds, k \in Slots :
                ticks'[s][k] # ticks[s][k] => ticks'[s][k] = StartTick
    /\ \A s \in ServerIds, k \in Slots :
          LET rec == ticks[s][k]
              rec2 == ticks'[s][k]
              c == servers[s].channelId
          IN  (rec.pc \in {"probe", "chart"} /\ rec2.pc \in {"edit", "send"}
                 /\ MapHas(statusMessages, c))
              => (rec2.pc = "edit" /\ rec2.existing = MapGet(statusMessages, c))

C19_InitKeepsStores == [][C19_Step]_vars

\* a re-initialization has just run for two destinations that each have a message and
\* a series: both are still there, and an invocation is started for each target
C19_Witness ==
    /\ ev.op = "init" /\ inits = 2
    /\ statusMessages = {<<"c1", 1>>, <<"c2", 2>>}
    /\ \A s \in ServerIds :
          /\ Len(HistoryOf(playerHistory, servers[s].channelId)) >= 1
          /\ \E k \in Slots : ticks[s][k] = StartTick

\* C20: when the invocations for one destination do not overlap, channel.send is
\* called only while the destination has no message, so at most one channel.send
\* ever resolves for it; from then on the stored message is never replaced or
\* removed, and every later invocation calls edit on that message and nothing else,
\* also when the edit is rejected every time
C20_Inv ==
    /\ \A s \in ServerIds, k \in Slots :
          LET rec == ticks[s][k]
              c == servers[s].channelId
          IN  /\ rec.pc = "send" => ~MapHas(statusMessages, c)
              /\ rec.pc = "edit" => (rec.existing # {}
                                      /\ rec.existing = MapGet(statusMessages, c))
    /\ nextMessage - 1 = Cardinality(MapKeys(statusMessages))
    /\ \A c \in ChannelIds : Cardinality(MapGet(statusMessages, c)) <= 1

C20_Step ==
    /\ \A c \in ChannelIds :
          MapHas(statusMessages, c)
          => MapGet(statusMessages', c) = MapGet(statusMessages, c)
    /\ \A s \in ServerIds, k \in Slots :
          LET rec == ticks[s][k]
              rec2 == ticks'[s][k]
          IN  (rec.pc = "edit" /\ rec2 # rec)
              => (rec2 = IdleTick /\ statusMessages' = statusMessages)

C20_OneCreate == []C20_Inv /\ [][C20_Step]_vars

\* the one message of the only destination was created before a re-initialization,
\* and an edit of it has just been rejected: it is still the stored message and no
\* channel.send follows
C20_Witness ==
    /\ ev.op = "edit" /\ ~ev.ok
    /\ inits = 2 /\ Len(servers) = 1
    /\ statusMessages = {<<servers[1].channelId, 1>>}
    /\ nextMessage = 2
    /\ InFlight(1) = 0

====
